---- MODULE Spec2Model ----
(***************************************************************************)
(* The AudioPlayer component of src/src/components/AudioPlayer.tsx as a    *)
(* state machine: its six React state cells, the closures its two effects  *)
(* keep, the asynchronous calls it has issued to the audio subsystem       *)
(* (expo-av) and the native sounds those calls created.                    *)
(*                                                                         *)
(* A handler runs up to its first await in one step and captures the state *)
(* of the render it was created in; every await is a pending call whose    *)
(* completion is a later step.  The component is re-rendered after every   *)
(* step, so a handler invoked in a state captures that state.              *)
(*                                                                         *)
(* The audio subsystem is the environment.  Calls on existing sounds are   *)
(* executed in the order they were issued; createAsync calls complete in   *)
(* any order.  A transport call on a sound that is not loaded throws,      *)
(* unloadAsync on it does nothing, getStatusAsync on it returns            *)
(* isLoaded = false.  A completed call reports its status to the callback  *)
(* the sound was created with before the awaiting handler continues.       *)
(***************************************************************************)
EXTENDS Integers, Sequences, FiniteSets, TLC

\* Bounds of the model.
MaxLoads == 3
MaxCalls == 2
MaxDur == 1
MaxTail == 2
MaxChapters == 2
MaxLiveLoads == 2
MaxBooks == 2
MaxFetches == 3
MaxBookIds == 2

VARIABLES
    phase,        \* "new" | "mounted" | "unmounted": the component's lifecycle
    audioUrl,     \* the audioUrl prop (the ordinal of the selected reference)
    sound,        \* useState sound: 0 is null, n is the sound load n created
    isPlaying,    \* useState isPlaying
    isLoading,    \* useState isLoading
    position,     \* useState position
    duration,     \* useState duration
    error,        \* useState error
    cleanupSound, \* the sound captured by the cleanup of the [audioUrl] effect
    timers,       \* scheduled intervals: the sound each tick closure captured
    calls,        \* pending calls on sounds, in issue order
    creates,      \* pending Audio.Sound.createAsync calls
    native,       \* the native sound of each load
    nextTok,      \* loadSound invocations so far
    ref,          \* the reference handed to a resolver of src/r2/services.ts
    resolver,     \* which resolver
    result,       \* what the resolver returned
    pass,         \* how often the resolver has been applied
    book,         \* BookDetailScreen: useState book, as fetched
    isAudioPlaying,       \* BookDetailScreen: useState isAudioPlaying
    selectedChapterIndex, \* BookDetailScreen: useState selectedChapterIndex
    books,        \* the list handed to addSampleAudioUrls
    sampled,      \* the list it returned
    given,        \* the book handed to processBookUrls
    processed,    \* the book it returned
    times,        \* how often processBookUrls has been applied
    id,           \* BookDetailScreen: the route parameter id (0: none)
    loading,      \* BookDetailScreen: useState loading
    fetchedBook,  \* BookDetailScreen: useState book, as fetchBook set it
    fetchError,   \* BookDetailScreen: useState error
    fetches,      \* fetchBook invocations awaiting getBookById
    fetchSeq,     \* fetchBook invocations so far
    store         \* the books collection: the document of each id

vars == <<phase, audioUrl, sound, isPlaying, isLoading, position, duration,
          error, cleanupSound, timers, calls, creates, native, nextTok,
          ref, resolver, result, pass,
          book, isAudioPlaying, selectedChapterIndex,
          books, sampled, given, processed, times,
          id, loading, fetchedBook, fetchError, fetches, fetchSeq, store>>

\* The variables that are not the player's.
elsewhere == <<ref, resolver, result, pass,
               book, isAudioPlaying, selectedChapterIndex,
               books, sampled, given, processed, times,
               id, loading, fetchedBook, fetchError, fetches, fetchSeq, store>>

\* The variables of the callers of the book helpers of src/r2/services.ts.
library == <<books, sampled, given, processed, times>>

\* The variables of fetchBook of the book detail screen.
detail == <<id, loading, fetchedBook, fetchError, fetches, fetchSeq, store>>

\* The variables of the book detail screen.
screen == <<book, isAudioPlaying, selectedChapterIndex>>

\* The player's variables.
player == <<phase, audioUrl, sound, isPlaying, isLoading, position, duration,
            error, cleanupSound, timers, calls, creates, native, nextTok>>

ui == <<sound, isPlaying, isLoading, position, duration, error>>

Toks == 1..MaxLoads

NoError == "none"
LoadError == "Failed to load audio"
ToggleError == "Failed to play/pause audio"
PlaybackError == "Playback error"

NoSound == [st |-> "none", playing |-> FALSE, pos |-> 0, url |-> 0]

Mounted == phase = "mounted"

Loaded(s) == s \in Toks /\ native[s].st = "loaded"

Held == {s \in Toks : native[s].st = "loaded"}

\* The status a sound reports.
Status(n) ==
    [isLoaded |-> n.st = "loaded",
     positionMillis |-> n.pos,
     durationMillis |-> MaxDur,
     isPlaying |-> n.playing]

\* A pending call: the operation, the sound, the handler awaiting it (k) and
\* what its closure keeps (tok, url, cap).  intr is history the code does not
\* read: a later transport gesture was made while the handler was in flight.
Call(op, s, k, tok, url, cap) ==
    [op |-> op, snd |-> s, k |-> k, tok |-> tok, url |-> url, cap |-> cap,
     intr |-> FALSE]

\* The pending calls once a further transport gesture has been made.
Overtaken(q) == [i \in DOMAIN q |-> [q[i] EXCEPT !.intr = TRUE]]

----
\* The resolvers of src/src/r2/services.ts and src/src/r2/config.ts.  A string
\* is the sequence of its characters; a host name, a bucket name and the path
\* of a placeholder, which no test looks into, are one element each.

\* undefined: no string, and the text a template literal prints for it.
Undefined == <<"undefined">>

\* !url
Falsy(url) == url = Undefined \/ url = <<>>

\* url.startsWith(prefix)
StartsWith(url, prefix) ==
    Len(url) >= Len(prefix) /\ SubSeq(url, 1, Len(prefix)) = prefix

Http == <<"h", "t", "t", "p">>

\* A public URL that does not begin with http.
R2_PUBLIC_URL_Relative == <<"/", "/", "pub-c6afb0e9c6e14b0f9d9f4aec83b93b1b.r2.dev">>

R2_PUBLIC_URL ==
    <<"h", "t", "t", "p", "s", ":", "/", "/",
      "pub-c6afb0e9c6e14b0f9d9f4aec83b93b1b.r2.dev">>

R2_BUCKET ==
    [AUDIO |-> <<"tunetalez-audio">>,
     IMAGES |-> <<"tunetalez-images">>,
     THUMBNAILS |-> <<"tunetalez-thumbnails">>,
     PDFS |-> <<"tunetalez-pdfs">>]

NoCover ==
    <<"h", "t", "t", "p", "s", ":", "/", "/",
      "via.placeholder.com/150x200/333333/FFFFFF?text=No+Cover">>

NoImage ==
    <<"h", "t", "t", "p", "s", ":", "/", "/",
      "via.placeholder.com/400x300/333333/FFFFFF?text=No+Image">>

getR2PublicUrl(path) ==
    IF StartsWith(path, Http) THEN path
    ELSE R2_PUBLIC_URL \o <<"/">> \o path

getThumbnailUrl(filename) == getR2PublicUrl(R2_BUCKET.THUMBNAILS \o <<"/">> \o filename)
getAudioUrl(filename) == getR2PublicUrl(R2_BUCKET.AUDIO \o <<"/">> \o filename)
getImageUrl(filename) == getR2PublicUrl(R2_BUCKET.IMAGES \o <<"/">> \o filename)
getPdfUrl(filename) == getR2PublicUrl(R2_BUCKET.PDFS \o <<"/">> \o filename)

\* processAudioUrl without the test of an absent reference.
processAudioUrlUnguarded(url) ==
    IF StartsWith(url, Http) THEN url
    ELSE getAudioUrl(url)

processThumbnailUrl(url) ==
    IF Falsy(url) THEN NoCover
    ELSE IF StartsWith(url, Http) THEN url
    ELSE getThumbnailUrl(url)

processAudioUrl(url) ==
    IF Falsy(url) THEN Undefined
    ELSE IF StartsWith(url, Http) THEN url
    ELSE getAudioUrl(url)

processImageUrl(url) ==
    IF Falsy(url) THEN NoImage
    ELSE IF StartsWith(url, Http) THEN url
    ELSE getImageUrl(url)

processPdfUrl(url) ==
    IF Falsy(url) THEN Undefined
    ELSE IF StartsWith(url, Http) THEN url
    ELSE getPdfUrl(url)

Resolvers == {"thumbnail", "audio", "image", "pdf"}

\* The resolver named f applied to url.
Resolve(f, url) ==
    CASE f = "thumbnail" -> processThumbnailUrl(url)
      [] f = "audio" -> processAudioUrl(url)
      [] f = "image" -> processImageUrl(url)
      [] f = "pdf" -> processPdfUrl(url)

\* The bucket segment of the resolver named f.
Bucket(f) ==
    CASE f = "thumbnail" -> R2_BUCKET.THUMBNAILS
      [] f = "audio" -> R2_BUCKET.AUDIO
      [] f = "image" -> R2_BUCKET.IMAGES
      [] f = "pdf" -> R2_BUCKET.PDFS

\* No resolver has been called.
NothingResolved ==
    /\ ref = Undefined
    /\ resolver = "audio"
    /\ result = Undefined
    /\ pass = 0

----
\* The audio subsystem.

\* The sound after a call on it succeeded.
NativeAfter(n, op) ==
    IF n.st # "loaded" THEN n
    ELSE CASE op = "play" -> [n EXCEPT !.playing = TRUE]
           [] op = "pause" -> [n EXCEPT !.playing = FALSE]
           [] op = "stop" -> [n EXCEPT !.playing = FALSE, !.pos = 0]
           [] op = "seek" -> [n EXCEPT !.pos = 0]
           [] op = "unload" -> [n EXCEPT !.st = "unloaded", !.playing = FALSE, !.pos = 0]
           [] OTHER -> n

CanSucceed(c) == c.op \in {"unload", "status"} \/ Loaded(c.snd)

CanThrow(c) ==
    CASE c.op = "status" -> FALSE
      [] c.op = "unload" -> Loaded(c.snd)
      [] OTHER -> TRUE

\* The head call completes: ok says whether it resolves or throws.
Completes(c, ok) ==
    /\ calls # <<>>
    /\ c = Head(calls)
    /\ IF ok THEN CanSucceed(c) ELSE CanThrow(c)
    /\ native' = IF ok /\ c.snd \in Toks
                 THEN [native EXCEPT ![c.snd] = NativeAfter(native[c.snd], c.op)]
                 ELSE native

----
\* The component.

\* A callback that also clears isPlaying when the status is not loaded.
OnPlaybackStatusUpdateResets(status, err) ==
    IF ~Mounted THEN UNCHANGED <<position, duration, isPlaying, error>>
    ELSE IF status.isLoaded
    THEN /\ position' = status.positionMillis
         /\ duration' = status.durationMillis
         /\ isPlaying' = status.isPlaying
         /\ UNCHANGED error
    ELSE /\ isPlaying' = FALSE
         /\ error' = IF err THEN PlaybackError ELSE error
         /\ UNCHANGED <<position, duration>>

\* A callback that sets isPlaying but never clears it.
OnPlaybackStatusUpdateLatches(status, err) ==
    IF ~Mounted THEN UNCHANGED <<position, duration, isPlaying, error>>
    ELSE IF status.isLoaded
    THEN /\ position' = status.positionMillis
         /\ duration' = status.durationMillis
         /\ isPlaying' = (isPlaying \/ status.isPlaying)
         /\ UNCHANGED error
    ELSE IF err
    THEN /\ error' = PlaybackError
         /\ UNCHANGED <<position, duration, isPlaying>>
    ELSE UNCHANGED <<position, duration, isPlaying, error>>

\* onPlaybackStatusUpdate.
OnPlaybackStatusUpdate(status, err) ==
    IF ~Mounted THEN UNCHANGED <<position, duration, isPlaying, error>>
    ELSE IF status.isLoaded
    THEN /\ position' = status.positionMillis
         /\ duration' = status.durationMillis
         /\ isPlaying' = status.isPlaying
         /\ UNCHANGED error
    ELSE IF err
    THEN /\ error' = PlaybackError
         /\ UNCHANGED <<position, duration, isPlaying>>
    ELSE UNCHANGED <<position, duration, isPlaying, error>>

\* loadSound without the test of sound before unloadAsync.
LoadSoundStartUnguarded(q, url) ==
    /\ nextTok' = nextTok + 1
    /\ isLoading' = TRUE
    /\ error' = NoError
    /\ calls' = Append(q, Call("unload", sound, "load", nextTok + 1, url, FALSE))
    /\ UNCHANGED creates

\* loadSound up to its first await, in the render with state sound and audioUrl url.
LoadSoundStart(q, url) ==
    /\ nextTok' = nextTok + 1
    /\ isLoading' = TRUE
    /\ error' = NoError
    /\ IF sound # 0
       THEN /\ calls' = Append(q, Call("unload", sound, "load", nextTok + 1, url, FALSE))
            /\ UNCHANGED creates
       ELSE /\ calls' = q
            /\ creates' = creates \cup {[tok |-> nextTok + 1, url |-> url]}

\* No player has been rendered.
NoPlayer ==
    /\ phase = "new"
    /\ audioUrl = 0
    /\ sound = 0
    /\ isPlaying = FALSE
    /\ isLoading = FALSE
    /\ position = 0
    /\ duration = 0
    /\ error = NoError
    /\ cleanupSound = 0
    /\ timers = <<>>
    /\ calls = <<>>
    /\ creates = {}
    /\ native = [t \in Toks |-> NoSound]
    /\ nextTok = 0

\* No book detail screen is open.
NoScreen ==
    /\ book = [audioUrl |-> Undefined, chapters |-> <<>>]
    /\ isAudioPlaying = FALSE
    /\ selectedChapterIndex = 0

\* A book without thumbnailUrl and audioUrl.
NoUrls == [title |-> 0, thumbnailUrl |-> Undefined, audioUrl |-> Undefined]

\* No book helper has been called.
NoLibrary ==
    /\ books = <<>>
    /\ sampled = <<>>
    /\ given = NoUrls
    /\ processed = NoUrls
    /\ times = 0

\* The book detail screen has not been opened.  null is the book without id.
NoBook == [id |-> 0, chapters |-> <<>>]
Absent == [exists |-> FALSE, chapters |-> <<>>]
BookIds == 1..MaxBookIds

NoDetail ==
    /\ id = 0
    /\ loading = TRUE
    /\ fetchedBook = NoBook
    /\ fetchError = NoError
    /\ fetches = {}
    /\ fetchSeq = 0
    /\ store = [i \in BookIds |-> Absent]

Init == NoPlayer /\ NothingResolved /\ NoScreen /\ NoLibrary /\ NoDetail

\* The parent renders the player: the [audioUrl] effect runs loadSound.
Mount ==
    /\ phase = "new"
    /\ phase' = "mounted"
    /\ audioUrl' = 1
    /\ LoadSoundStart(calls, 1)
    /\ cleanupSound' = sound
    /\ UNCHANGED <<sound, isPlaying, position, duration, timers, native, elsewhere>>

\* The audioUrl prop changes: the cleanup of the previous run unloads the sound
\* it captured without awaiting it, then the effect runs loadSound.
ChangeAudioUrl ==
    /\ Mounted
    /\ nextTok < MaxLoads
    /\ audioUrl' = audioUrl + 1
    /\ LET q == IF cleanupSound # 0
                THEN Append(calls, Call("unload", cleanupSound, "none", 0, 0, FALSE))
                ELSE calls
       IN LoadSoundStart(q, audioUrl + 1)
    /\ cleanupSound' = sound
    /\ UNCHANGED <<phase, sound, isPlaying, position, duration, timers, native,
                   elsewhere>>

\* A cleanup that leaves the interval scheduled.
PollCleanupKeeps(tm, oldPlaying) == tm

\* The cleanup of useEffect [isPlaying, sound]: clearInterval if one was set.
PollCleanup(tm, oldPlaying) ==
    IF oldPlaying /\ tm # <<>> THEN SubSeq(tm, 1, Len(tm) - 1) ELSE tm

\* useEffect [isPlaying, sound]: when either changed, the cleanup of the
\* previous run runs and the effect schedules an interval if isPlaying.
PollEffect(tm, oldPlaying, oldSound, newPlaying, newSound) ==
    IF oldPlaying = newPlaying /\ oldSound = newSound THEN tm
    ELSE IF newPlaying THEN Append(PollCleanup(tm, oldPlaying), newSound)
    ELSE PollCleanup(tm, oldPlaying)

\* The parent stops rendering the player (onClose, toggle): both cleanups run
\* and the state cells of the instance are gone.
Unmount ==
    /\ Mounted
    /\ phase' = "unmounted"
    /\ calls' = IF cleanupSound # 0
                THEN Append(calls, Call("unload", cleanupSound, "none", 0, 0, FALSE))
                ELSE calls
    /\ timers' = PollCleanup(timers, isPlaying)
    /\ sound' = 0
    /\ isPlaying' = FALSE
    /\ isLoading' = FALSE
    /\ position' = 0
    /\ duration' = 0
    /\ error' = NoError
    /\ cleanupSound' = 0
    /\ UNCHANGED <<audioUrl, creates, native, nextTok, elsewhere>>

\* A render that shows the controls while a load is in progress.
ViewWithoutLoading ==
    IF error # NoError THEN "error"
    ELSE "controls"

\* What the render shows: the error view, else the loading view, else the controls.
View ==
    IF error # NoError THEN "error"
    ELSE IF isLoading THEN "loading"
    ELSE "controls"

\* A retry whose closure kept the audioUrl of the first render.
LoadSoundFirstUrl ==
    /\ Mounted
    /\ nextTok < MaxLoads
    /\ LoadSoundStart(calls, 1)
    /\ UNCHANGED <<phase, audioUrl, sound, isPlaying, position, duration,
                   cleanupSound, timers, native, elsewhere>>

\* loadSound as the retry button invokes it.
LoadSound ==
    /\ Mounted
    /\ nextTok < MaxLoads
    /\ LoadSoundStart(calls, audioUrl)
    /\ UNCHANGED <<phase, audioUrl, sound, isPlaying, position, duration,
                   cleanupSound, timers, native, elsewhere>>

\* The call togglePlayPause issues before its first await, if any.
ToggleCalls ==
    IF sound = 0 THEN <<>>
    ELSE IF isPlaying
    THEN <<Call("pause", sound, "toggle", 0, 0, FALSE)>>
    ELSE IF position >= duration /\ duration > 0
    THEN <<Call("seek", sound, "toggleSeek", 0, 0, FALSE)>>
    ELSE <<Call("play", sound, "toggle", 0, 0, FALSE)>>

\* togglePlayPause up to its first await.
TogglePlayPause ==
    /\ Mounted
    /\ Len(calls) < MaxCalls
    /\ calls' = IF ToggleCalls = <<>> THEN calls ELSE Overtaken(calls) \o ToggleCalls
    /\ UNCHANGED <<phase, audioUrl, ui, cleanupSound, timers, creates, native, nextTok,
                   elsewhere>>

\* stopAudio up to its first await.
StopAudio ==
    /\ Mounted
    /\ Len(calls) < MaxCalls
    /\ calls' = IF sound = 0 THEN calls
                ELSE Append(Overtaken(calls), Call("stop", sound, "stop", 0, 0, FALSE))
    /\ UNCHANGED <<phase, audioUrl, ui, cleanupSound, timers, creates, native, nextTok,
                   elsewhere>>

\* restartAudio up to its first await; the closure keeps isPlaying.
RestartAudio ==
    /\ Mounted
    /\ Len(calls) < MaxCalls
    /\ calls' = IF sound = 0 THEN calls
                ELSE Append(Overtaken(calls), Call("seek", sound, "restart", 0, 0, isPlaying))
    /\ UNCHANGED <<phase, audioUrl, ui, cleanupSound, timers, creates, native, nextTok,
                   elsewhere>>

\* The buttons the render offers.
PressRetry == View = "error" /\ LoadSound
PressPlayPause == View = "controls" /\ TogglePlayPause
PressStop == View = "controls" /\ StopAudio
PressRestart == View = "controls" /\ RestartAudio

\* An interval fires: the tick awaits getStatusAsync of the sound it captured.
PollTick ==
    /\ Len(calls) < MaxCalls
    /\ \E i \in 1..Len(timers) :
         calls' = IF timers[i] = 0 THEN calls
                  ELSE Append(calls, Call("status", timers[i], "tick", 0, 0, FALSE))
    /\ UNCHANGED <<phase, audioUrl, ui, cleanupSound, timers, creates, native, nextTok,
                   elsewhere>>

\* The head call, awaited by a handler at k, resolves: the sound reports its
\* status and the handler goes on to issue the calls of next.
SettleOk(k, next) ==
    LET c == Head(calls) IN
    /\ calls # <<>>
    /\ c.k = k
    /\ Completes(c, TRUE)
    /\ calls' = Tail(calls) \o [i \in DOMAIN next |-> [next[i] EXCEPT !.intr = c.intr]]
    /\ OnPlaybackStatusUpdate(Status(native'[c.snd]), FALSE)
    /\ timers' = PollEffect(timers, isPlaying, sound, isPlaying', sound)
    /\ UNCHANGED <<phase, audioUrl, sound, isLoading, cleanupSound, creates, nextTok,
                   elsewhere>>

\* The head call, awaited by a handler at k, throws: the catch sets error to
\* onThrow, or only logs when onThrow is NoError.
SettleThrow(k, onThrow) ==
    LET c == Head(calls) IN
    /\ calls # <<>>
    /\ c.k = k
    /\ Completes(c, FALSE)
    /\ calls' = Tail(calls)
    /\ error' = IF Mounted /\ onThrow # NoError THEN onThrow ELSE error
    /\ UNCHANGED <<phase, audioUrl, sound, isPlaying, isLoading, position, duration,
                   cleanupSound, timers, creates, nextTok, elsewhere>>

HeadSnd == IF calls = <<>> THEN 0 ELSE Head(calls).snd
HeadCap == IF calls = <<>> THEN FALSE ELSE Head(calls).cap

\* The unload the [audioUrl] cleanup issued completes; nothing awaits it.
CleanupUnloadOk == SettleOk("none", <<>>)
CleanupUnloadThrow == SettleThrow("none", NoError)

\* loadSound after await sound.unloadAsync(): createAsync.
LoadUnloadOk ==
    LET c == Head(calls) IN
    /\ calls # <<>>
    /\ c.k = "load"
    /\ Completes(c, TRUE)
    /\ calls' = Tail(calls)
    /\ creates' = creates \cup {[tok |-> c.tok, url |-> c.url]}
    /\ UNCHANGED <<phase, audioUrl, ui, cleanupSound, timers, nextTok, elsewhere>>

\* loadSound when await sound.unloadAsync() throws: the catch.
LoadUnloadThrow ==
    LET c == Head(calls) IN
    /\ calls # <<>>
    /\ c.k = "load"
    /\ Completes(c, FALSE)
    /\ calls' = Tail(calls)
    /\ error' = IF Mounted THEN LoadError ELSE error
    /\ isLoading' = IF Mounted THEN FALSE ELSE isLoading
    /\ UNCHANGED <<phase, audioUrl, sound, isPlaying, position, duration,
                   cleanupSound, timers, creates, nextTok, elsewhere>>

\* togglePlayPause after pauseAsync or playAsync.
ToggleOk == SettleOk("toggle", <<>>)
ToggleThrow == SettleThrow("toggle", ToggleError)

\* togglePlayPause after setPositionAsync(0): playAsync.
ToggleSeekOk == SettleOk("toggleSeek", <<Call("play", HeadSnd, "toggle", 0, 0, FALSE)>>)
ToggleSeekThrow == SettleThrow("toggleSeek", ToggleError)

\* stopAudio after stopAsync: setPositionAsync(0).
StopOk == SettleOk("stop", <<Call("seek", HeadSnd, "stopSeek", 0, 0, FALSE)>>)
StopThrow == SettleThrow("stop", NoError)

\* stopAudio after setPositionAsync(0).
StopSeekOk == SettleOk("stopSeek", <<>>)
StopSeekThrow == SettleThrow("stopSeek", NoError)

\* restartAudio that calls playAsync whether or not it was playing.
RestartOkAlwaysPlays ==
    SettleOk("restart", <<Call("play", HeadSnd, "restartPlay", 0, 0, FALSE)>>)

\* restartAudio after setPositionAsync(0): playAsync unless it was playing.
RestartOk ==
    SettleOk("restart",
             IF HeadCap THEN <<>>
             ELSE <<Call("play", HeadSnd, "restartPlay", 0, 0, FALSE)>>)
RestartThrow == SettleThrow("restart", NoError)

\* restartAudio after playAsync.
RestartPlayOk == SettleOk("restartPlay", <<>>)
RestartPlayThrow == SettleThrow("restartPlay", NoError)

\* The tick after getStatusAsync: setPosition, setDuration.
TickOk == SettleOk("tick", <<>>)

\* createAsync resolves: the new sound reports its first status, then loadSound
\* sets sound and clears isLoading.
CreateOk ==
    \E r \in creates :
      /\ creates' = creates \ {r}
      /\ native' = [native EXCEPT ![r.tok] =
                       [st |-> "loaded", playing |-> FALSE, pos |-> 0, url |-> r.url]]
      /\ OnPlaybackStatusUpdate(Status(native'[r.tok]), FALSE)
      /\ sound' = IF Mounted THEN r.tok ELSE sound
      /\ isLoading' = IF Mounted THEN FALSE ELSE isLoading
      /\ timers' = PollEffect(timers, isPlaying, sound, isPlaying', sound')
      /\ UNCHANGED <<phase, audioUrl, cleanupSound, calls, nextTok, elsewhere>>

\* createAsync throws: the catch of loadSound.
CreateFail ==
    \E r \in creates :
      /\ creates' = creates \ {r}
      /\ error' = IF Mounted THEN LoadError ELSE error
      /\ isLoading' = IF Mounted THEN FALSE ELSE isLoading
      /\ UNCHANGED <<phase, audioUrl, sound, isPlaying, position, duration,
                     cleanupSound, timers, calls, native, nextTok, elsewhere>>

\* A playing sound one step later: at the end of the track it stops.
Advanced(n) ==
    IF n.pos >= MaxDur THEN [n EXCEPT !.playing = FALSE]
    ELSE [n EXCEPT !.pos = n.pos + 1, !.playing = n.pos + 1 < MaxDur]

\* A playing sound advances; at the end of the track it stops by itself.
DeviceAdvance ==
    \E s \in Toks :
      /\ Loaded(s)
      /\ native[s].playing
      /\ native' = [native EXCEPT ![s] =
                       Advanced(native[s])]
      /\ UNCHANGED <<phase, audioUrl, ui, cleanupSound, timers, calls, creates, nextTok,
                     elsewhere>>

\* A loaded sound reports its status to the callback it was created with.
StatusUpdate ==
    \E s \in Toks :
      /\ Loaded(s)
      /\ OnPlaybackStatusUpdate(Status(native[s]), FALSE)
      /\ timers' = PollEffect(timers, isPlaying, sound, isPlaying', sound)
      /\ UNCHANGED <<phase, audioUrl, sound, isLoading, cleanupSound, calls,
                     creates, native, nextTok, elsewhere>>

\* A playing sound fails: it is no longer loaded and reports the error.
NativePlaybackError ==
    \E s \in Toks :
      /\ Loaded(s)
      /\ native[s].playing
      /\ native' = [native EXCEPT ![s] = NativeAfter(native[s], "unload")]
      /\ OnPlaybackStatusUpdate(Status(native'[s]), TRUE)
      /\ timers' = PollEffect(timers, isPlaying, sound, isPlaying', sound)
      /\ UNCHANGED <<phase, audioUrl, sound, isLoading, cleanupSound, calls,
                     creates, nextTok, elsewhere>>

Next ==
    \/ Mount
    \/ ChangeAudioUrl
    \/ Unmount
    \/ PressRetry
    \/ PressPlayPause
    \/ PressStop
    \/ PressRestart
    \/ PollTick
    \/ CleanupUnloadOk
    \/ CleanupUnloadThrow
    \/ LoadUnloadOk
    \/ LoadUnloadThrow
    \/ ToggleOk
    \/ ToggleThrow
    \/ ToggleSeekOk
    \/ ToggleSeekThrow
    \/ StopOk
    \/ StopThrow
    \/ StopSeekOk
    \/ StopSeekThrow
    \/ RestartOk
    \/ RestartThrow
    \/ RestartPlayOk
    \/ RestartPlayThrow
    \/ TickOk
    \/ CreateOk
    \/ CreateFail
    \/ DeviceAdvance
    \/ StatusUpdate
    \/ NativePlaybackError

Spec == Init /\ [][Next]_vars

----
\* The resolvers applied to references.

\* How references begin, and the characters that follow.
Prefixes ==
    {<<>>,
     Http,
     <<"h", "t", "t", "p", ":", "/", "/">>,
     <<"h", "t", "t", "p", "s", ":", "/", "/">>,
     <<"f", "t", "p", ":", "/", "/">>,
     <<"f", "i", "l", "e", ":", "/", "/">>}
TailChars == {"a", "/", "."}
Tails == UNION {[1..n -> TailChars] : n \in 0..MaxTail}

\* The references a resolver is called with: a string, or none.
Refs == {p \o t : p \in Prefixes, t \in Tails} \cup {Undefined}

UrlInit ==
    /\ NoPlayer
    /\ NoScreen
    /\ NoLibrary
    /\ NoDetail
    /\ ref \in Refs
    /\ resolver \in Resolvers
    /\ result = Undefined
    /\ pass = 0

\* A caller resolves the reference.
ResolveUrl ==
    /\ pass = 0
    /\ result' = Resolve(resolver, ref)
    /\ pass' = 1
    /\ UNCHANGED <<ref, resolver, player, screen, library, detail>>

\* A caller resolves what the resolver returned.
ResolveAgain ==
    /\ pass = 1
    /\ result # Undefined
    /\ ref' = result
    /\ result' = Resolve(resolver, result)
    /\ pass' = 2
    /\ UNCHANGED <<resolver, player, screen, library, detail>>

UrlNext == ResolveUrl \/ ResolveAgain

SpecUrl == UrlInit /\ [][UrlNext]_vars

----
\* BookDetailScreen of src/app/book/[id].tsx, once the book has been fetched.

\* The audio references a book or a chapter may carry: none, empty, a file name.
AudioRefs == {Undefined, <<>>, <<"a">>}

\* a || b
Or(a, b) == IF Falsy(a) THEN b ELSE a

\* book?.chapters?.[selectedChapterIndex]: the chapter, or undefined.
HasSelectedChapter == selectedChapterIndex + 1 \in DOMAIN book.chapters
selectedChapter == book.chapters[selectedChapterIndex + 1]

\* The audioUrl prop the screen hands to AudioPlayer:
\* selectedChapter?.audioUrl || book.audioUrl || ''.
AudioUrlProp ==
    Or(Or(IF HasSelectedChapter THEN selectedChapter.audioUrl ELSE Undefined,
          book.audioUrl),
       <<>>)

BookInit ==
    /\ NoPlayer
    /\ NothingResolved
    /\ NoLibrary
    /\ NoDetail
    /\ book \in [audioUrl : AudioRefs,
                 chapters : UNION {[1..n -> [audioUrl : AudioRefs]] : n \in 0..MaxChapters}]
    /\ isAudioPlaying = FALSE
    /\ selectedChapterIndex = 0

\* The quick audio button, rendered when book.audioUrl: toggleAudio.
ToggleAudio ==
    /\ ~Falsy(book.audioUrl)
    /\ isAudioPlaying' = ~isAudioPlaying
    /\ UNCHANGED <<book, selectedChapterIndex, player, ref, resolver, result, pass,
                     library, detail>>

\* A chapter of the list is pressed.
SelectChapter ==
    \E index \in 0..(Len(book.chapters) - 1) :
        /\ selectedChapterIndex' = index
        /\ UNCHANGED <<book, isAudioPlaying, player, ref, resolver, result, pass,
                     library, detail>>

\* The audio button of a chapter, rendered when chapter.audioUrl.
PlayChapterAudio ==
    \E index \in 0..(Len(book.chapters) - 1) :
        /\ ~Falsy(book.chapters[index + 1].audioUrl)
        /\ selectedChapterIndex' = index
        /\ isAudioPlaying' = TRUE
        /\ UNCHANGED <<book, player, ref, resolver, result, pass,
                     library, detail>>

\* onClose of the player.
CloseAudio ==
    /\ isAudioPlaying
    /\ isAudioPlaying' = FALSE
    /\ UNCHANGED <<book, selectedChapterIndex, player, ref, resolver, result, pass,
                     library, detail>>

BookNext == ToggleAudio \/ SelectChapter \/ PlayChapterAudio \/ CloseAudio

SpecBook == BookInit /\ [][BookNext]_vars

----
\* addSampleAudioUrls of src/src/r2/services.ts.  A book id is the sequence of
\* its characters; a number is an integer or NaN.

\* A number: an integer, or NaN.
Number(v) == [nan |-> FALSE, v |-> v]
NaN == [nan |-> TRUE, v |-> 0]

DigitChars == {"0", "3", "5", "7"}

DigitValue(c) ==
    CASE c = "0" -> 0
      [] c = "3" -> 3
      [] c = "5" -> 5
      [] c = "7" -> 7

\* The value of the leading decimal digits of str, given the value so far;
\* NaN when there is none.
RECURSIVE ParseDigits(_, _)
ParseDigits(str, sofar) ==
    IF str = <<>> \/ Head(str) \notin DigitChars THEN sofar
    ELSE ParseDigits(Tail(str),
                     Number((IF sofar.nan THEN 0 ELSE 10 * sofar.v) + DigitValue(Head(str))))

\* parseInt(str, 10): an optional sign, then the leading digits.
ParseInt(str) ==
    IF str # <<>> /\ Head(str) = "-"
    THEN LET n == ParseDigits(Tail(str), NaN) IN IF n.nan THEN NaN ELSE Number(0 - n.v)
    ELSE ParseDigits(str, NaN)

\* a % b of JavaScript for an integer b > 0: the sign of a, NaN for NaN.
Remainder(a, b) ==
    IF a.nan THEN NaN
    ELSE IF a.v >= 0 THEN Number(a.v % b)
    ELSE Number(0 - ((0 - a.v) % b))

\* a || b on numbers: 0 and NaN are falsy.
OrNumber(a, b) == IF a.nan \/ a.v = 0 THEN b ELSE a

sampleAudios ==
    << <<"h", "t", "t", "p", "s", ":", "/", "/", "aliceinwonderland_01_carroll.mp3">>,
       <<"h", "t", "t", "p", "s", ":", "/", "/", "aliceinwonderland_02_carroll.mp3">>,
       <<"h", "t", "t", "p", "s", ":", "/", "/", "adventuresofsherlockholmes_01_doyle.mp3">>,
       <<"h", "t", "t", "p", "s", ":", "/", "/", "adventuresofsherlockholmes_02_doyle.mp3">>,
       <<"h", "t", "t", "p", "s", ":", "/", "/", "prideandprejudice_01_austen.mp3">> >>

\* array[i] of JavaScript, with indices from 0: undefined outside the array.
At(array, i) == IF i + 1 \in DOMAIN array THEN array[i + 1] ELSE Undefined

\* The callback of books.map: the book at index (from 0).
SampleBook(b, index) ==
    IF Falsy(b.audioUrl)
    THEN LET audioIndex == OrNumber(Remainder(ParseInt(b.id), Len(sampleAudios)),
                                    Number(index % Len(sampleAudios)))
         IN [b EXCEPT !.audioUrl = At(sampleAudios, audioIndex.v)]
    ELSE b

addSampleAudioUrls(list) == [i \in DOMAIN list |-> SampleBook(list[i], i - 1)]

\* The ids and the books of the lists.
IdChars == {"-", "0", "3", "5", "7", "x"}
Ids == [1..1 -> IdChars] \cup [1..2 -> IdChars]
BookValues == [id : Ids, audioUrl : {Undefined, <<>>, <<"a">>}]

SampleInit ==
    /\ NoPlayer
    /\ NothingResolved
    /\ NoScreen
    /\ NoDetail
    /\ books \in UNION {[1..n -> BookValues] : n \in 1..MaxBooks}
    /\ sampled = <<>>
    /\ given = NoUrls
    /\ processed = NoUrls
    /\ times = 0

\* A caller adds sample audio to the list.
AddSamples ==
    /\ sampled = <<>>
    /\ sampled' = addSampleAudioUrls(books)
    /\ UNCHANGED <<books, given, processed, times, player, ref, resolver, result, pass,
                   screen, detail>>

SampleNext == AddSamples

SpecSample == SampleInit /\ [][SampleNext]_vars

----
\* processBookUrls of src/src/r2/services.ts.

processBookUrls(b) ==
    [b EXCEPT !.thumbnailUrl = processThumbnailUrl(b.thumbnailUrl),
              !.audioUrl = IF Falsy(b.audioUrl) THEN Undefined
                           ELSE processAudioUrl(b.audioUrl)]

Titles == {1, 2}

\* The books processBookUrls is called with.
GivenBooks == [title : Titles, thumbnailUrl : Refs, audioUrl : Refs]

UrlsInit ==
    /\ NoPlayer
    /\ NothingResolved
    /\ NoScreen
    /\ NoDetail
    /\ books = <<>>
    /\ sampled = <<>>
    /\ given \in GivenBooks
    /\ processed = NoUrls
    /\ times = 0

\* A caller processes the book.
ProcessBook ==
    /\ times = 0
    /\ processed' = processBookUrls(given)
    /\ times' = 1
    /\ UNCHANGED <<given, books, sampled, player, ref, resolver, result, pass, screen,
                   detail>>

\* A caller processes what processBookUrls returned.
ProcessAgain ==
    /\ times = 1
    /\ given' = processed
    /\ processed' = processBookUrls(processed)
    /\ times' = 2
    /\ UNCHANGED <<books, sampled, player, ref, resolver, result, pass, screen, detail>>

UrlsNext == ProcessBook \/ ProcessAgain

SpecUrls == UrlsInit /\ [][UrlsNext]_vars

----
\* fetchBook of the book detail screen (src/app/book/[id].tsx), with
\* getBookById of the firebase services.

\* The chapter lists a document can hold: each chapter has its id and its order.
ChapterLists ==
    UNION {{[k \in 1..n |-> [id |-> k, order |-> o[k]]] : o \in [1..n -> 0..1]}
           : n \in 0..MaxChapters}

Documents == {Absent} \cup [exists : {TRUE}, chapters : ChapterLists]

\* c put into the sorted list t behind the chapters that do not come after it.
Insert(c, t) ==
    LET k == Cardinality({i \in DOMAIN t : t[i].order <= c.order})
    IN SubSeq(t, 1, k) \o <<c>> \o SubSeq(t, k + 1, Len(t))

\* chapters.sort((a, b) => a.order - b.order): a stable sort.
RECURSIVE SortByOrder(_)
SortByOrder(chapters) ==
    IF chapters = <<>> THEN <<>>
    ELSE Insert(chapters[Len(chapters)],
                SortByOrder(SubSeq(chapters, 1, Len(chapters) - 1)))

BookNotFound == "Book not found"
BookIdMissing == "Book ID is missing"

FetchInit ==
    /\ NoPlayer
    /\ NothingResolved
    /\ NoScreen
    /\ NoLibrary
    /\ id = 0
    /\ loading = TRUE
    /\ fetchedBook = NoBook
    /\ fetchError = NoError
    /\ fetches = {}
    /\ fetchSeq = 0
    /\ store \in [BookIds -> Documents]

\* fetchBook up to its first await, for the route parameter i.
FetchBookStart(i) ==
    /\ fetchSeq' = fetchSeq + 1
    /\ IF i = 0
       THEN /\ fetchError' = BookIdMissing
            /\ loading' = FALSE
            /\ UNCHANGED fetches
       ELSE /\ fetches' = fetches \cup {[n |-> fetchSeq + 1, id |-> i]}
            /\ UNCHANGED <<fetchError, loading>>

\* The screen is opened: the [id] effect runs fetchBook.
OpenScreen ==
    /\ fetchSeq = 0
    /\ \E i \in {0} \cup BookIds :
         /\ id' = i
         /\ FetchBookStart(i)
    /\ UNCHANGED <<fetchedBook, store, player, ref, resolver, result, pass, screen,
                   library>>

\* The route parameter changes: the [id] effect runs fetchBook again.
ChangeId ==
    /\ fetchSeq > 0
    /\ fetchSeq < MaxFetches
    /\ \E i \in ({0} \cup BookIds) \ {id} :
         /\ id' = i
         /\ FetchBookStart(i)
    /\ UNCHANGED <<fetchedBook, store, player, ref, resolver, result, pass, screen,
                   library>>

\* getBookById resolves with the document: the chapters are sorted, setBook.
FetchFound ==
    \E f \in fetches :
      /\ store[f.id].exists
      /\ fetches' = fetches \ {f}
      /\ fetchedBook' = [id |-> f.id, chapters |-> SortByOrder(store[f.id].chapters)]
      /\ loading' = FALSE
      /\ UNCHANGED <<id, fetchError, fetchSeq, store, player, ref, resolver, result,
                     pass, screen, library>>

\* getBookById resolves with null, there being no document: setError.
FetchNotFound ==
    \E f \in fetches :
      /\ ~store[f.id].exists
      /\ fetches' = fetches \ {f}
      /\ fetchError' = BookNotFound
      /\ loading' = FALSE
      /\ UNCHANGED <<id, fetchedBook, fetchSeq, store, player, ref, resolver, result,
                     pass, screen, library>>

\* getDoc throws: getBookById catches, logs and resolves with null: setError.
FetchFails ==
    \E f \in fetches :
      /\ fetches' = fetches \ {f}
      /\ fetchError' = BookNotFound
      /\ loading' = FALSE
      /\ UNCHANGED <<id, fetchedBook, fetchSeq, store, player, ref, resolver, result,
                     pass, screen, library>>

FetchNext == OpenScreen \/ ChangeId \/ FetchFound \/ FetchNotFound \/ FetchFails

SpecFetch == FetchInit /\ [][FetchNext]_vars

----
\* The claims.

\* A loadSound invocation has not settled.
LoadPending == creates # {} \/ \E i \in DOMAIN calls : calls[i].k = "load"

\* C1: once every load issued on the instance has settled, the held sound and
\* the Ready/Error outcome are those of the load issued last: if it succeeded,
\* sound is the sound it created and error is not its failure message; if it
\* failed, error is set.
C1_LastLoadWins ==
    (Mounted /\ nextTok >= 1 /\ ~LoadPending) =>
        IF native[nextTok].st # "none"
        THEN sound = nextTok /\ error # LoadError
        ELSE error # NoError

\* C2: at most one native sound is held (created and not yet unloaded).
C2_AtMostOneHeld == Cardinality(Held) <= 1

\* C3: after teardown, once every call in flight has settled, every sound the
\* instance created has been unloaded.
C3_NoLeakAfterTeardown ==
    (phase = "unmounted" /\ calls = <<>> /\ creates = {}) => Held = {}

\* C4: the polling interval is not active while the player is Idle (no sound),
\* Loading (isLoading) or Error (error set).
C4_NoPollOutsidePlaying ==
    (Mounted /\ timers # <<>>) => (sound # 0 /\ ~isLoading /\ error = NoError)

\* C5: after unmount no interval of the instance remains scheduled, and at any
\* time at most one interval is scheduled.
C5_PollBounded ==
    /\ Len(timers) <= 1
    /\ phase = "unmounted" => timers = <<>>

\* C5 witness: the instance was unmounted while a tick of its interval was still
\* awaiting getStatusAsync.
C5_Witness ==
    /\ phase = "unmounted"
    /\ \E i \in DOMAIN calls : calls[i].k = "tick"

C7_StopResetsAndKeepsSound ==
    [][(StopSeekOk /\ ~Head(calls).intr) =>
        /\ native'[HeadSnd].st = "loaded"
        /\ ~native'[HeadSnd].playing
        /\ native'[HeadSnd].pos = 0
        /\ sound' = sound
        /\ (Mounted /\ sound = HeadSnd) => (position' = 0 /\ ~isPlaying')]_vars

\* C8: when play is offered (controls shown, isPlaying false) on a held sound
\* whose position is at or beyond its duration, togglePlayPause first seeks to 0.
C8_ReplaySeeksFirst ==
    (/\ Mounted
     /\ View = "controls"
     /\ ~isPlaying
     /\ Loaded(sound)
     /\ native[sound].pos >= MaxDur)
        => (ToggleCalls # <<>> /\ ToggleCalls[1].op = "seek")

C10_PreviousUnloadedBeforeCreate ==
    \A t \in Toks :
        LET issued == {r \in creates : r.tok = t}
            url == IF issued # {} THEN (CHOOSE r \in issued : TRUE).url
                   ELSE native[t].url
        IN (issued # {} \/ native[t].st # "none") =>
               \A s \in Toks : (s < t /\ native[s].url # url) => ~Loaded(s)

\* The asynchronous operations of the instance that are in flight: each pending
\* call is awaited by one handler invocation, each pending createAsync by one
\* loadSound.
InFlight == Len(calls) + Cardinality(creates)

\* C11: while the player is mounted, at most one asynchronous operation (load,
\* play, pause, stop, restart, unload, status read of a tick) is in flight.
C11_NoConcurrentOps == Mounted => InFlight <= 1

\* A call of a handler of the instance throws.
HandlerThrows ==
    \/ LoadUnloadThrow
    \/ CreateFail
    \/ ToggleThrow
    \/ ToggleSeekThrow
    \/ StopThrow
    \/ StopSeekThrow
    \/ RestartThrow
    \/ RestartPlayThrow

\* C12: whenever a call of load, play, pause, stop or seek/restart throws while
\* the player is mounted, the player is in the Error state afterwards: error is
\* set to a message.
C12_FailureSetsError ==
    [][(HandlerThrows /\ Mounted) => error' # NoError]_vars

\* The audio subsystem settles the oldest pending call on a sound.
CallSettles ==
    \/ CleanupUnloadOk
    \/ CleanupUnloadThrow
    \/ LoadUnloadOk
    \/ LoadUnloadThrow
    \/ ToggleOk
    \/ ToggleThrow
    \/ ToggleSeekOk
    \/ ToggleSeekThrow
    \/ StopOk
    \/ StopThrow
    \/ StopSeekOk
    \/ StopSeekThrow
    \/ RestartOk
    \/ RestartThrow
    \/ RestartPlayOk
    \/ RestartPlayThrow
    \/ TickOk

\* The audio subsystem settles a pending createAsync.
CreateSettles == CreateOk \/ CreateFail

\* The load the last step issued, for reference url: its createAsync, or the
\* unloadAsync of the held sound it awaits first.
LoadIssued(url) ==
    \/ \E r \in creates' \ creates : r.url = url
    \/ /\ Len(calls') = Len(calls) + 1
       /\ calls'[Len(calls')].op = "unload"
       /\ calls'[Len(calls')].k = "load"
       /\ calls'[Len(calls')].url = url

\* C13: pressing retry in the error view, whatever set the error, issues a load
\* for the current audioUrl, leaves audioUrl as it is, clears error and sets
\* isLoading; and the player never stays in Loading for ever: it becomes Ready
\* or Error again (or is unmounted).
C13_RetryReloads ==
    /\ [][\A e \in {LoadError, ToggleError, PlaybackError} :
            (PressRetry /\ error = e) =>
                /\ LoadIssued(audioUrl)
                /\ audioUrl' = audioUrl
                /\ error' = NoError
                /\ isLoading']_vars
    /\ (Mounted /\ isLoading /\ error = NoError)
            ~> (~Mounted \/ ~isLoading \/ error # NoError)

\* C13 witness: the load of a retry (a load after the first for the first
\* reference) has ended with the player Ready on the sound it created.
C13_Witness ==
    /\ Mounted
    /\ audioUrl = 1
    /\ nextTok >= 2
    /\ sound = nextTok
    /\ Loaded(sound)
    /\ ~isLoading
    /\ error = NoError

C15_PositionMonotone ==
    [][(/\ Mounted /\ Mounted'
        /\ sound' = sound
        /\ Loaded(sound)
        /\ native[sound].playing
        /\ native'[sound].st = "loaded"
        /\ native'[sound].playing
        /\ native'[sound].pos >= native[sound].pos)
            => /\ position' >= position
               /\ duration' > 0 => position' <= duration']_vars

Letters == {"h", "t", "p", "s", "f", "i", "l", "e", "a"}

\* The reference begins with a URI scheme: letters, then "://".
HasScheme(url) ==
    \E i \in 1..(Len(url) - 3) :
        /\ \A j \in 1..i : url[j] \in Letters
        /\ url[i + 1] = ":"
        /\ url[i + 2] = "/"
        /\ url[i + 3] = "/"

\* The reference is a bare file name: letters and dots only.
BareName(url) ==
    /\ url # Undefined
    /\ url # <<>>
    /\ \A j \in 1..Len(url) : url[j] \in Letters \cup {"."}

\* C16: each of the four resolvers returns a reference that begins with a URI
\* scheme unchanged, and never returns a bare file name unchanged.
C16_AbsoluteUnchanged ==
    pass = 1 =>
        /\ HasScheme(ref) => result = ref
        /\ BareName(ref) => result # ref

\* C17: for a non-empty reference without a URI scheme each resolver returns
\* R2_PUBLIC_URL, "/", its own bucket, "/" and the reference, and no other
\* resolver returns the same URL for that reference.
C17_BareJoined ==
    (pass = 1 /\ ~Falsy(ref) /\ ~HasScheme(ref)) =>
        /\ result = R2_PUBLIC_URL \o <<"/">> \o Bucket(resolver) \o <<"/">> \o ref
        /\ \A g \in Resolvers \ {resolver} : Resolve(g, ref) # result

\* C18: for an absent or empty reference processAudioUrl and processPdfUrl
\* return undefined and processThumbnailUrl and processImageUrl their
\* placeholder; for every other reference the result is a non-empty string.
C18_EmptyAndNonEmpty ==
    pass = 1 =>
        IF Falsy(ref)
        THEN result = CASE resolver = "thumbnail" -> NoCover
                        [] resolver = "image" -> NoImage
                        [] OTHER -> Undefined
        ELSE result # Undefined /\ result # <<>>

\* C18 witness: processAudioUrl has been applied to the empty string.
C18_Witness ==
    /\ pass = 1
    /\ resolver = "audio"
    /\ ref = <<>>
    /\ result = Undefined

\* C19: a resolver applied to what it returned returns the same.
C19_Idempotent == pass = 2 => result = ref

\* C19 witness: processAudioUrl has been applied to the URL it made of a bare
\* file name.
C19_Witness ==
    /\ pass = 2
    /\ resolver = "audio"
    /\ ref = getAudioUrl(<<"a">>)

RestartPlayIssued ==
    /\ Len(calls') = Len(calls)
    /\ calls'[Len(calls')].op = "play"
    /\ calls'[Len(calls')].k = "restartPlay"

HeldStatusUpdate ==
    /\ StatusUpdate
    /\ Loaded(sound)
    /\ isPlaying' = native[sound].playing
    /\ position' = native[sound].pos

\* The audioUrl prop changes, and retry is pressed, within MaxLiveLoads loads.
ChangeAudioUrlEarly == nextTok < MaxLiveLoads /\ ChangeAudioUrl
PressRetryEarly == nextTok < MaxLiveLoads /\ PressRetry

StatusNext ==
    \/ Mount
    \/ ChangeAudioUrlEarly
    \/ Unmount
    \/ PressRetryEarly
    \/ PressPlayPause
    \/ PressStop
    \/ PressRestart
    \/ PollTick
    \/ CleanupUnloadOk
    \/ CleanupUnloadThrow
    \/ LoadUnloadOk
    \/ LoadUnloadThrow
    \/ ToggleOk
    \/ ToggleThrow
    \/ ToggleSeekOk
    \/ ToggleSeekThrow
    \/ StopOk
    \/ StopThrow
    \/ StopSeekOk
    \/ StopSeekThrow
    \/ RestartOk
    \/ RestartThrow
    \/ RestartPlayOk
    \/ RestartPlayThrow
    \/ TickOk
    \/ CreateOk
    \/ CreateFail
    \/ DeviceAdvance
    \/ StatusUpdate
    \/ NativePlaybackError

\* The steps of the player when the audioUrl prop changes within MaxLiveLoads
\* loads and retry is pressed within MaxLoads loads.
LiveNext ==
    \/ Mount
    \/ ChangeAudioUrlEarly
    \/ Unmount
    \/ PressRetry
    \/ PressPlayPause
    \/ PressStop
    \/ PressRestart
    \/ PollTick
    \/ CleanupUnloadOk
    \/ CleanupUnloadThrow
    \/ LoadUnloadOk
    \/ LoadUnloadThrow
    \/ ToggleOk
    \/ ToggleThrow
    \/ ToggleSeekOk
    \/ ToggleSeekThrow
    \/ StopOk
    \/ StopThrow
    \/ StopSeekOk
    \/ StopSeekThrow
    \/ RestartOk
    \/ RestartThrow
    \/ RestartPlayOk
    \/ RestartPlayThrow
    \/ TickOk
    \/ CreateOk
    \/ CreateFail
    \/ DeviceAdvance
    \/ StatusUpdate
    \/ NativePlaybackError

\* The player with an audio subsystem that settles every call it was given.
SpecLive ==
    /\ Init
    /\ [][LiveNext]_vars
    /\ WF_vars(CallSettles)
    /\ WF_vars(CreateSettles)

\* The player, loading at most MaxLiveLoads times, with an audio subsystem that
\* settles every call and reports every change of the held sound's status.
SpecStatus ==
    /\ Init
    /\ [][StatusNext]_vars
    /\ WF_vars(CallSettles)
    /\ WF_vars(CreateSettles)
    /\ WF_vars(HeldStatusUpdate)

\* The held sound has stopped at the end of the track and isPlaying is still true.
StoppedAtEnd ==
    /\ Mounted
    /\ isPlaying
    /\ Loaded(sound)
    /\ ~native[sound].playing
    /\ native[sound].pos >= MaxDur

\* C22: when the held sound has stopped at the end of its track while isPlaying
\* is true, then eventually isPlaying is false and no interval is scheduled
\* (the control shows play), unless the sound was unloaded, replaced or started
\* again or the player unmounted before.
C22_EndOfTrackReflected ==
    StoppedAtEnd ~>
        \/ ~isPlaying /\ timers = <<>>
        \/ ~Mounted
        \/ ~Loaded(sound)
        \/ native[sound].playing
        \/ native[sound].pos < MaxDur

\* C22 witness: the held sound was played to its end and the display has
\* followed: it shows the end position, isPlaying false and no interval.
C22_Witness ==
    /\ Mounted
    /\ Loaded(sound)
    /\ ~native[sound].playing
    /\ native[sound].pos >= MaxDur
    /\ position >= MaxDur
    /\ ~isPlaying
    /\ timers = <<>>

\* C23: addSampleAudioUrls returns a list of the same length in which every
\* book that had an audioUrl is unchanged and every book that had none keeps
\* its id and has one of the five sample URLs as audioUrl.
C23_SamplesAdded ==
    sampled # <<>> =>
        /\ Len(sampled) = Len(books)
        /\ \A i \in DOMAIN books :
            IF Falsy(books[i].audioUrl)
            THEN /\ sampled[i].id = books[i].id
                 /\ \E k \in DOMAIN sampleAudios : sampled[i].audioUrl = sampleAudios[k]
            ELSE sampled[i] = books[i]

\* The last step was a press of play/pause, stop or restart that reached the
\* audio subsystem: the handler appended its first call.
TransportIssued ==
    /\ Len(calls') = Len(calls) + 1
    /\ calls'[Len(calls')].k \in {"toggle", "toggleSeek", "stop", "restart"}

\* The last step was loadSound invoked by the retry control: a load begins while
\* the player stays mounted on the same audioUrl.
RetryIssued ==
    /\ Mounted
    /\ nextTok' = nextTok + 1
    /\ audioUrl' = audioUrl

\* C24: play/pause, stop and restart are invoked only when error is null and
\* isLoading is false, retry only when error is set; the view is Error if error
\* is set, else Loading if isLoading, else the controls, so exactly one of the
\* three views is shown in every state.
C24_ControlsGated ==
    /\ [](/\ Cardinality({v \in {"error", "loading", "controls"} : View = v}) = 1
          /\ View = "error" <=> error # NoError
          /\ View = "loading" <=> (error = NoError /\ isLoading)
          /\ View = "controls" <=> (error = NoError /\ ~isLoading))
    /\ [][/\ TransportIssued => (error = NoError /\ ~isLoading)
          /\ RetryIssued => error # NoError]_vars

\* C24 witness: after a retry from the error view, with the reloaded sound held
\* and the controls shown, stop was pressed and its call is pending.
C24_Witness ==
    /\ Mounted
    /\ audioUrl = 1
    /\ nextTok >= 2
    /\ View = "controls"
    /\ \E i \in DOMAIN calls : calls[i].k = "stop" /\ calls[i].snd = sound

\* The last step was a press of play/pause that reached the audio subsystem.
ToggleIssued ==
    /\ Len(calls') = Len(calls) + 1
    /\ calls'[Len(calls')].k \in {"toggle", "toggleSeek"}

\* C25: togglePlayPause issues pause exactly when the device is playing, and
\* otherwise play (after a seek to 0 at the end of the track): a press made
\* while the device is not playing never issues pause.
C25_ToggleFollowsDevice ==
    [][ToggleIssued =>
        /\ calls'[Len(calls')].op = "pause" <=> native[sound].playing
        /\ calls'[Len(calls')].op \in {"play", "seek"} <=> ~native[sound].playing]_vars

\* C26: whenever a loadSound invocation is still in flight, isLoading is true:
\* isLoading becomes false only when no load is pending, also when two loads
\* overlap and the earlier one settles first.
C26_LoadingWhilePending == (Mounted /\ LoadPending) => isLoading

\* The last step began a load (loadSound ran up to its first await).
LoadBegins == nextTok' = nextTok + 1

\* C27: isPlaying implies that a sound is held and loaded, that isLoading is
\* false and that error is null; a reload begun while playing (audioUrl change
\* or retry) resets isPlaying to false.
C27_PlayingImpliesReady ==
    /\ [](Mounted /\ isPlaying =>
            /\ sound # 0
            /\ Loaded(sound)
            /\ ~isLoading
            /\ error = NoError)
    /\ [][(LoadBegins /\ isPlaying) => ~isPlaying']_vars

\* What the player displays of the playback.
Display == <<position, duration, isPlaying, error>>

\* A call resolves and the status of its sound reaches the callback or the tick.
CallResolves ==
    \/ CleanupUnloadOk
    \/ ToggleOk
    \/ ToggleSeekOk
    \/ StopOk
    \/ StopSeekOk
    \/ RestartOk
    \/ RestartPlayOk
    \/ TickOk

\* C28: status updates and poll-tick reads from a sound other than the one held
\* never change the displayed position, duration, isPlaying or error: the status
\* that comes with a resolving call or a playback error of another sound leaves
\* the display as it is, and a spontaneous status update changes the display
\* only to the status of the held sound.
C28_OnlyHeldSoundDisplayed ==
    [][/\ (CallResolves /\ HeadSnd # sound) => UNCHANGED Display
       /\ \A s \in Toks :
            (NativePlaybackError /\ native'[s] # native[s] /\ s # sound)
                => UNCHANGED Display
       /\ (StatusUpdate /\ Display' # Display) =>
            /\ Loaded(sound)
            /\ position' = Status(native[sound]).positionMillis
            /\ duration' = Status(native[sound]).durationMillis
            /\ isPlaying' = Status(native[sound]).isPlaying]_vars

\* The chapters are in non-decreasing order of their order field.
InOrder(chapters) ==
    \A i, j \in DOMAIN chapters : i < j => chapters[i].order <= chapters[j].order

\* C29: once every issued fetchBook has settled, loading is false, exactly one
\* of book and error is non-null, the shown book is the one of the most recent
\* id, and its chapters are in non-decreasing order of their order field.
C29_FetchSettled ==
    (fetchSeq > 0 /\ fetches = {}) =>
        /\ ~loading
        /\ (fetchedBook # NoBook) # (fetchError # NoError)
        /\ fetchedBook # NoBook => fetchedBook.id = id
        /\ InOrder(fetchedBook.chapters)

\* C30: processBookUrls returns a book whose thumbnailUrl is a non-empty absolute
\* URL (the original absolute URL, the R2 thumbnail URL of the bare name, or the
\* placeholder), whose audioUrl is undefined when the input audioUrl is absent
\* or empty and an absolute URL otherwise, and whose other fields are unchanged;
\* applied to its own result it returns the same book.
C30_BookUrlsAbsolute ==
    /\ times = 1 =>
        /\ ~Falsy(processed.thumbnailUrl)
        /\ HasScheme(processed.thumbnailUrl)
        /\ processed.thumbnailUrl =
              IF Falsy(given.thumbnailUrl) THEN NoCover
              ELSE IF HasScheme(given.thumbnailUrl) THEN given.thumbnailUrl
              ELSE getThumbnailUrl(given.thumbnailUrl)
        /\ IF Falsy(given.audioUrl) THEN processed.audioUrl = Undefined
           ELSE HasScheme(processed.audioUrl)
        /\ processed.title = given.title
    /\ times = 2 => processed = given

====
